---------------------------- MODULE Spec2Model ----------------------------
(***************************************************************************)
(* The MongoDB storage backend of ceilometer                               *)
(* (ceilometer/storage/impl_mongodb.py): the connection bootstrap, the     *)
(* write path record_metering_data, as one step and statement by           *)
(* statement for concurrent callers, the filter-to-query translation, the  *)
(* listing operations and the map/reduce aggregates, over the four         *)
(* collections user, project, resource and meter.                          *)
(*                                                                         *)
(* Values.  A Python string is a sequence of character codes (1, 2, ...),  *)
(* so "" is << >> and the order of sorted() is computed, not assumed.      *)
(* None, where a string is expected, is the one-element sequence << 0 >>   *)
(* (no character has code 0).  A datetime is a positive integer; NoTime    *)
(* stands for None where a datetime is expected; the integer is the        *)
(* datetime's distance from the epoch in milliseconds, which is what       *)
(* valueOf() of a JavaScript Date returns.  A dict is a function           *)
(* whose domain is its set of keys.  A MongoDB collection is the sequence  *)
(* of its documents in insertion order; an array field is a sequence.      *)
(***************************************************************************)
EXTENDS Integers, Sequences, FiniteSets, TLC

VARIABLES
    user,       \* db.user:     documents {_id, source: [..]}
    project,    \* db.project:  documents {_id, source: [..]}
    resource,   \* db.resource: documents {_id, project_id, user_id, ...}
    meter,      \* db.meter:    the raw samples, each with the driver's _id
    ingested,   \* history: the samples of the completed record_metering_data calls
    ret,        \* the last call: its name, its arguments and what it returned
    calls,      \* per caller: its record_metering_data call in progress and
                \* the objects of that call (the caller's sample, its copy)
    conn        \* the Connection: its options, the calls __init__ made on
                \* the database, the indexes of the database

vars == << user, project, resource, meter, ingested, ret, calls, conn >>

store == << user, project, resource, meter >>

-----------------------------------------------------------------------------
(* Python values *)

None == << 0 >>

NoTime == 0

\* bool(x) of a string or None: None and '' are false.
Truthy(x) == x # None /\ x # << >>

\* bool(x) of a datetime or None: every datetime is true.
TruthyTime(t) == t # NoTime

\* a < b on Python 2 str: byte-wise, a proper prefix first.
RECURSIVE StrLess(_, _)
StrLess(a, b) ==
    IF b = << >> THEN FALSE
    ELSE IF a = << >> THEN TRUE
    ELSE IF Head(a) < Head(b) THEN TRUE
    ELSE IF Head(a) > Head(b) THEN FALSE
    ELSE StrLess(Tail(a), Tail(b))

\* The list left as the store returned it.
sorted_Unsorted(s) == s

\* The list a sorted() call builds: stable, ascending.
RECURSIVE sorted(_)
sorted(s) ==
    IF s = << >> THEN << >>
    ELSE LET rest == sorted(Tail(s))
             x == Head(s)
             n == Cardinality({ i \in 1..Len(rest) : StrLess(rest[i], x) })
         IN  SubSeq(rest, 1, n) \o << x >> \o SubSeq(rest, n + 1, Len(rest))

\* d[k] = v on a dict.
Put(d, k, v) == [ x \in DOMAIN d \cup {k} |-> IF x = k THEN v ELSE d[x] ]

EmptyDict == [ x \in {} |-> 0 ]

ToSet(s) == { s[i] : i \in 1..Len(s) }

-----------------------------------------------------------------------------
(* The document store *)

\* $push in place of $addToSet: the value is appended whatever the array holds.
AddToSet_Push(arr, v) == Append(arr, v)

\* $addToSet: the value is appended unless the array already holds it.
AddToSet(arr, v) ==
    IF \E i \in 1..Len(arr) : arr[i] = v THEN arr ELSE Append(arr, v)

\* insert in place of update(..., upsert=True): no document is looked up.
IndexOfId_Insert(coll, key) == 0

\* The position of the first document with this _id, 0 when there is none.
IndexOfId(coll, key) ==
    IF \E i \in 1..Len(coll) : coll[i]._id = key
    THEN CHOOSE i \in 1..Len(coll) :
            /\ coll[i]._id = key
            /\ \A j \in 1..(i - 1) : coll[j]._id # key
    ELSE 0

\* $set in place of $addToSet: the record keeps the last source only.
UpsertSource_Overwrite(coll, key, src) ==
    IF \E i \in 1..Len(coll) : coll[i]._id = key
    THEN [ i \in 1..Len(coll) |->
             IF coll[i]._id = key THEN [ coll[i] EXCEPT !.source = << src >> ]
             ELSE coll[i] ]
    ELSE Append(coll, [ _id |-> key, source |-> << src >> ])

\* update({'_id': key}, {'$addToSet': {'source': src}}, upsert=True)
UpsertSource(coll, key, src) ==
    LET i == IndexOfId(coll, key)
    IN  IF i = 0
        THEN Append(coll, [ _id |-> key, source |-> << src >> ])
        ELSE [ coll EXCEPT ![i].source = AddToSet(@, src) ]

MeterPair(data) ==
    [ counter_name |-> data.counter_name, counter_type |-> data.counter_type ]

\* The owner written when the record is created only, as under $setOnInsert.
UpsertResource_KeepOwner(coll, data, received_timestamp) ==
    IF \E i \in 1..Len(coll) : coll[i]._id = data.resource_id
    THEN [ i \in 1..Len(coll) |->
             IF coll[i]._id = data.resource_id
             THEN [ _id                |-> coll[i]._id,
                    project_id         |-> coll[i].project_id,
                    user_id            |-> coll[i].user_id,
                    timestamp          |-> data.timestamp,
                    received_timestamp |-> received_timestamp,
                    metadata           |-> data.resource_metadata,
                    source             |-> data.source,
                    meter              |-> AddToSet(coll[i].meter, MeterPair(data)) ]
             ELSE coll[i] ]
    ELSE Append(coll,
            [ _id                |-> data.resource_id,
              project_id         |-> data.project_id,
              user_id            |-> data.user_id,
              timestamp          |-> data.timestamp,
              received_timestamp |-> received_timestamp,
              metadata           |-> data.resource_metadata,
              source             |-> data.source,
              meter              |-> << MeterPair(data) >> ])

\* The $set applied only when the sample is not older than the record.
UpsertResource_KeepNewest(coll, data, received_timestamp) ==
    IF \E i \in 1..Len(coll) : coll[i]._id = data.resource_id
    THEN [ i \in 1..Len(coll) |->
             IF coll[i]._id = data.resource_id
             THEN [ _id                |-> coll[i]._id,
                    project_id         |-> IF data.timestamp >= coll[i].timestamp
                                           THEN data.project_id ELSE coll[i].project_id,
                    user_id            |-> IF data.timestamp >= coll[i].timestamp
                                           THEN data.user_id ELSE coll[i].user_id,
                    timestamp          |-> IF data.timestamp >= coll[i].timestamp
                                           THEN data.timestamp ELSE coll[i].timestamp,
                    received_timestamp |-> received_timestamp,
                    metadata           |-> IF data.timestamp >= coll[i].timestamp
                                           THEN data.resource_metadata
                                           ELSE coll[i].metadata,
                    source             |-> IF data.timestamp >= coll[i].timestamp
                                           THEN data.source ELSE coll[i].source,
                    meter              |-> AddToSet(coll[i].meter, MeterPair(data)) ]
             ELSE coll[i] ]
    ELSE Append(coll,
            [ _id                |-> data.resource_id,
              project_id         |-> data.project_id,
              user_id            |-> data.user_id,
              timestamp          |-> data.timestamp,
              received_timestamp |-> received_timestamp,
              metadata           |-> data.resource_metadata,
              source             |-> data.source,
              meter              |-> << MeterPair(data) >> ])

\* 'meter' under $set with the other fields: the record keeps the last pair only.
UpsertResource_ResetMeter(coll, data, received_timestamp) ==
    LET doc == [ _id                |-> data.resource_id,
                 project_id         |-> data.project_id,
                 user_id            |-> data.user_id,
                 timestamp          |-> data.timestamp,
                 received_timestamp |-> received_timestamp,
                 metadata           |-> data.resource_metadata,
                 source             |-> data.source,
                 meter              |-> << MeterPair(data) >> ]
    IN  IF \E i \in 1..Len(coll) : coll[i]._id = data.resource_id
        THEN [ i \in 1..Len(coll) |->
                 IF coll[i]._id = data.resource_id THEN doc ELSE coll[i] ]
        ELSE Append(coll, doc)

\* update({'_id': resource_id}, {'$set': {...}, '$addToSet': {'meter': ...}},
\*        upsert=True)
UpsertResource(coll, data, received_timestamp) ==
    LET i == IndexOfId(coll, data.resource_id)
        set(meters) ==
            [ _id                |-> data.resource_id,
              project_id         |-> data.project_id,
              user_id            |-> data.user_id,
              timestamp          |-> data.timestamp,
              received_timestamp |-> received_timestamp,
              metadata           |-> data.resource_metadata,
              source             |-> data.source,
              meter              |-> AddToSet(meters, MeterPair(data)) ]
    IN  IF i = 0
        THEN Append(coll, set(<< >>))
        ELSE [ coll EXCEPT ![i] = set(coll[i].meter) ]

\* save() under the _id of the newest document: that document is replaced.
Insert_Overwrite(coll, record) ==
    IF coll = << >> THEN << Put(record, "_id", 1) >>
    ELSE [ coll EXCEPT ![Len(coll)] = Put(record, "_id", Len(coll)) ]

\* The ObjectId the driver gives an inserted document that has no _id.
ObjectId(coll) == Len(coll) + 1

\* insert(record): the driver adds the key '_id' to the record it is given.
Insert(coll, record) == Append(coll, Put(record, "_id", ObjectId(coll)))

-----------------------------------------------------------------------------
(* Connection bootstrap *)

\* The characters of a network location: a letter and the digits 0 and 1,
\* which \w matches, and ':', '@' and '-'.
Letter == 1

Zero == 2

One == 3

Colon == 4

AtSign == 5

Dash == 6

\* \w
Word(c) == c \in { Letter, Zero, One }

\* The length of the longest run of \w characters of s that starts at i.
WordRun(s, i) ==
    CHOOSE k \in 0..(Len(s) - i + 1) :
        /\ \A j \in i..(i + k - 1) : Word(s[j])
        /\ i + k > Len(s) \/ ~Word(s[i + k])

\* re.match(r'(?:(\w+:\w+)@)?(.*)', netloc): group 1 and group 2.  No \w
\* character is ':' or '@', so the two runs are the longest ones.
netloc_match(netloc) ==
    LET a == WordRun(netloc, 1)
        b == WordRun(netloc, a + 2)
        matched == /\ a >= 1
                   /\ a + 1 <= Len(netloc)
                   /\ netloc[a + 1] = Colon
                   /\ b >= 1
                   /\ a + b + 2 <= Len(netloc)
                   /\ netloc[a + b + 2] = AtSign
    IN  IF matched
        THEN [ auth |-> SubSeq(netloc, 1, a + b + 1),
               netloc |-> SubSeq(netloc, a + b + 3, Len(netloc)) ]
        ELSE [ auth |-> None, netloc |-> netloc ]

\* s.split(':')
RECURSIVE str_split(_)
str_split(s) ==
    IF \A i \in 1..Len(s) : s[i] # Colon THEN << s >>
    ELSE LET i == CHOOSE n \in 1..Len(s) :
                      /\ s[n] = Colon
                      /\ \A j \in 1..(n - 1) : s[j] # Colon
         IN  << SubSeq(s, 1, i - 1) >> \o str_split(SubSeq(s, i + 1, Len(s)))

\* Whether int(s) raises ValueError.
NotAnInt(s) == s = << >> \/ \E i \in 1..Len(s) : s[i] \notin { Zero, One }

\* int(s) of a string of digits.
RECURSIVE int(_)
int(s) ==
    IF s = << >> THEN 0
    ELSE 10 * int(SubSeq(s, 1, Len(s) - 1))
           + (IF s[Len(s)] = One THEN 1 ELSE 0)

DefaultPort == 27017

\* The options read from the network location of the connection URL, or the
\* ValueError raised by an unpacking or by int().
parse_connection_url(url) ==
    LET netloc_match_ == netloc_match(url)
        auth == netloc_match_.auth
        netloc == netloc_match_.netloc
        credentials == str_split(auth)
        parts == str_split(netloc)
        has_port == \E i \in 1..Len(netloc) : netloc[i] = Colon
        port == parts[2]
        opts1 == IF auth # None
                 THEN Put(Put(EmptyDict, "username", credentials[1]),
                          "password", credentials[2])
                 ELSE EmptyDict
        opts2 == Put(opts1, "host", IF has_port THEN parts[1] ELSE netloc)
    IN  IF \/ auth # None /\ Len(credentials) # 2
           \/ has_port /\ Len(parts) # 2
           \/ has_port /\ port # << >> /\ NotAnInt(port)
        THEN [ raised |-> TRUE, error |-> "ValueError" ]
        ELSE [ raised |-> FALSE,
               opts |-> Put(opts2, "port",
                            IF has_port /\ port # << >> /\ int(port) # 0
                            THEN int(port) ELSE DefaultPort) ]

\* collection.ensure_index(keys, name=name).  The driver remembers the names
\* it has ensured for a collection and sends nothing for a name it
\* remembers; the database builds nothing when the collection has an index
\* of that name or on those keys.
ensure_index(db, collection, keys, name) ==
    IF << collection, name >> \in db.cache THEN db
    ELSE [ cache |-> db.cache \cup { << collection, name >> },
           ops |-> Append(db.ops, [ op |-> "create_index",
                                    collection |-> collection, name |-> name ]),
           indexes |->
              IF \E ix \in db.indexes :
                    /\ ix.collection = collection
                    /\ ix.name = name \/ ix.keys = keys
              THEN db.indexes
              ELSE db.indexes \cup { [ collection |-> collection, keys |-> keys,
                                       name |-> name ] } ]

\* The body of the loop 'for primary in ['user_id', 'project_id']'.
EstablishIndexes(db, primary) ==
    ensure_index(
        ensure_index(db, "resource", << primary, "source" >>, "resource_idx"),
        "meter",
        << "resource_id", primary, "counter_name", "timestamp", "source" >>,
        "meter_idx")

\* The indexes established before the credentials are presented.
Connection_init_IndexesFirst(url, indexes) ==
    LET parsed == parse_connection_url(url)
        connected == [ cache |-> {}, ops |-> << [ op |-> "connect" ] >>,
                       indexes |-> indexes ]
        db == EstablishIndexes(EstablishIndexes(connected, "user_id"), "project_id")
    IN  IF parsed.raised
        THEN [ state |-> "failed", url |-> url, error |-> parsed.error,
               ops |-> << >>, indexes |-> indexes ]
        ELSE [ state |-> "ready", url |-> url, opts |-> parsed.opts,
               ops |-> IF "username" \in DOMAIN parsed.opts
                       THEN Append(db.ops, [ op |-> "authenticate" ])
                       ELSE db.ops,
               indexes |-> db.indexes ]

\* Connection.__init__ on a database that has the given indexes: the
\* Connection with the calls made on the database, in order, or the error
\* raised before any call.
Connection_init(url, indexes) ==
    LET parsed == parse_connection_url(url)
        connected == [ cache |-> {}, ops |-> << [ op |-> "connect" ] >>,
                       indexes |-> indexes ]
        authenticated ==
            IF ~parsed.raised /\ "username" \in DOMAIN parsed.opts
            THEN [ connected EXCEPT !.ops = Append(@, [ op |-> "authenticate" ]) ]
            ELSE connected
        db == EstablishIndexes(EstablishIndexes(authenticated, "user_id"),
                               "project_id")
    IN  IF parsed.raised
        THEN [ state |-> "failed", url |-> url, error |-> parsed.error,
               ops |-> << >>, indexes |-> indexes ]
        ELSE [ state |-> "ready", url |-> url, opts |-> parsed.opts,
               ops |-> db.ops, indexes |-> db.indexes ]

\* Connection(conf)
Bootstrap(urls) ==
    \E url \in urls :
        /\ conn' = Connection_init(url, conn.indexes)
        /\ ret' = [ op |-> "__init__" ]
        /\ UNCHANGED << store, ingested, calls >>

-----------------------------------------------------------------------------
(* The write path *)

record_metering_data(data, utcnow) ==
    /\ user' = UpsertSource(user, data.user_id, data.source)
    /\ project' = UpsertSource(project, data.project_id, data.source)
    /\ resource' = UpsertResource(resource, data, utcnow)
    /\ meter' = Insert(meter, data)
    /\ ingested' = Append(ingested, data)
    /\ ret' = [ op |-> "record_metering_data" ]
    /\ UNCHANGED << calls, conn >>

-----------------------------------------------------------------------------
(* The write path, statement by statement *)

\* The statements of record_metering_data that call the store, the last
\* with the copy it inserts, written in another order: the raw data first.
Program_InsertFirst == << "insert", "user", "project", "resource" >>

\* The statements of record_metering_data that call the store, in order.
Program == << "user", "project", "resource", "insert" >>

\* A caller that has not called.
Idle ==
    [ state |-> "idle", pc |-> 0, sample |-> EmptyDict, objs |-> EmptyDict,
      record |-> "unbound" ]

\* The document the driver sends for a dict: its keys with their values, the
\* value of 'resource_metadata' being the mapping the dict refers to.
Serialized(objs, name) ==
    [ k \in DOMAIN objs[name] |->
        IF k = "resource_metadata" THEN objs[objs[name][k].ref]
        ELSE objs[name][k] ]

\* record = data: the name is bound to the caller's dict.
copy_copy_Same(objs, name) == [ objs |-> objs, name |-> name ]

\* record = copy.copy(data): a new dict with the keys and values of data,
\* a value that is a reference being the same reference.
copy_copy(objs, name) ==
    [ objs |-> Put(objs, "record", objs[name]), name |-> "record" ]

\* The caller passes a dict whose 'resource_metadata' is a mapping of its own.
Call(p, samples) ==
    \E data \in samples :
        /\ calls[p].state = "idle"
        /\ calls' = [ calls EXCEPT ![p] =
              [ state |-> "running", pc |-> 0, sample |-> data,
                objs |-> [ data |-> [ data EXCEPT !.resource_metadata =
                                                     [ ref |-> "metadata" ] ],
                           metadata |-> data.resource_metadata ],
                record |-> "unbound" ] ]
        /\ ret' = [ op |-> "call", caller |-> p ]
        /\ UNCHANGED << store, ingested, conn >>

\* Whether the caller's call is about to execute a statement.
At(p, statement) ==
    /\ calls[p].state = "running"
    /\ Program[calls[p].pc + 1] = statement

\* The call after a statement: at the next one, or returned.
Advance(frame) ==
    [ frame EXCEPT !.pc = @ + 1,
                   !.state = IF frame.pc + 1 = Len(Program) THEN "returned"
                             ELSE "running" ]

\* What a statement leaves of the history and of the last call.
Executed(p) ==
    /\ ingested' = IF calls[p].pc + 1 = Len(Program)
                   THEN Append(ingested, calls[p].sample) ELSE ingested
    /\ ret' = [ op |-> "record_metering_data", caller |-> p ]
    /\ UNCHANGED conn

UpdateUser(p) ==
    /\ At(p, "user")
    /\ LET data == Serialized(calls[p].objs, "data")
       IN  user' = UpsertSource(user, data.user_id, data.source)
    /\ calls' = [ calls EXCEPT ![p] = Advance(@) ]
    /\ Executed(p)
    /\ UNCHANGED << project, resource, meter >>

UpdateProject(p) ==
    /\ At(p, "project")
    /\ LET data == Serialized(calls[p].objs, "data")
       IN  project' = UpsertSource(project, data.project_id, data.source)
    /\ calls' = [ calls EXCEPT ![p] = Advance(@) ]
    /\ Executed(p)
    /\ UNCHANGED << user, resource, meter >>

UpdateResource(p, clock) ==
    /\ At(p, "resource")
    /\ \E utcnow \in clock :
          resource' = UpsertResource(resource, Serialized(calls[p].objs, "data"),
                                     utcnow)
    /\ calls' = [ calls EXCEPT ![p] = Advance(@) ]
    /\ Executed(p)
    /\ UNCHANGED << user, project, meter >>

\* record = copy.copy(data); self.db.meter.insert(record): the driver adds
\* the key '_id' to the dict it is given and sends the document.
InsertRecord(p) ==
    /\ At(p, "insert")
    /\ LET copied == copy_copy(calls[p].objs, "data")
           record == copied.name
       IN  /\ meter' = Insert(meter, Serialized(copied.objs, record))
           /\ calls' = [ calls EXCEPT ![p] =
                 Advance([ @ EXCEPT
                     !.objs = [ copied.objs EXCEPT ![record] =
                                  Put(@, "_id", ObjectId(meter)) ],
                     !.record = record ]) ]
    /\ Executed(p)
    /\ UNCHANGED << user, project, resource >>

\* The process of the caller fails between two statements of the call.
Crash(p) ==
    /\ calls[p].state = "running"
    /\ calls' = [ calls EXCEPT ![p].state = "crashed" ]
    /\ UNCHANGED << store, ingested, ret, conn >>

\* After the call the caller changes its sample: it sets a key of the dict,
\* or a key of the resource_metadata mapping in place.
Mutate(p) ==
    /\ calls[p].state = "returned"
    /\ \E objs \in { [ calls[p].objs EXCEPT !.data.user_id = << >> ],
                     [ calls[p].objs EXCEPT !.metadata = Put(@, "changed", "later") ] } :
          calls' = [ calls EXCEPT ![p].objs = objs, ![p].state = "mutated" ]
    /\ ret' = [ op |-> "caller", caller |-> p ]
    /\ UNCHANGED << store, ingested, conn >>

-----------------------------------------------------------------------------
(* Queries on a collection *)

\* Whether a timestamp satisfies a {'$gte': .., '$lt': ..} document.
InRange(t, ts_range) ==
    /\ "$gte" \in DOMAIN ts_range => t >= ts_range["$gte"]
    /\ "$lt" \in DOMAIN ts_range => t < ts_range["$lt"]

\* Whether a document satisfies a query document.  A plain value asks for
\* equality, and for membership when the document's field is an array (the
\* fields named in arrays); 'timestamp' carries a range and '_id' an $in list.
Matches(doc, q, arrays) ==
    \A k \in DOMAIN q :
        CASE k = "timestamp" -> InRange(doc.timestamp, q[k])
          [] k = "_id"       -> \E i \in 1..Len(q[k]["$in"]) : q[k]["$in"][i] = doc._id
          [] k \in arrays    -> \E i \in 1..Len(doc[k]) : doc[k][i] = q[k]
          [] OTHER           -> doc[k] = q[k]

\* collection.find(q): the matching documents, in the collection's order.
Find(coll, q, arrays) == SelectSeq(coll, LAMBDA doc : Matches(doc, q, arrays))

\* cursor.distinct(field): each value once, in order of first appearance.
RECURSIVE Distinct(_, _)
Distinct(docs, field) ==
    IF docs = << >> THEN << >>
    ELSE LET front == Distinct(SubSeq(docs, 1, Len(docs) - 1), field)
             v == docs[Len(docs)][field]
         IN  IF \E i \in 1..Len(front) : front[i] = v THEN front ELSE Append(front, v)

-----------------------------------------------------------------------------
(* Query translation *)

\* 'elif end' in place of 'if end': the upper bound is dropped when a
\* lower bound is given.
make_timestamp_range_Elif(start, end) ==
    IF TruthyTime(start) THEN Put(EmptyDict, "$gte", start)
    ELSE IF TruthyTime(end) THEN Put(EmptyDict, "$lt", end)
    ELSE EmptyDict

make_timestamp_range(start, end) ==
    LET with_start == IF TruthyTime(start) THEN Put(EmptyDict, "$gte", start)
                      ELSE EmptyDict
    IN  IF TruthyTime(end) THEN Put(with_start, "$lt", end) ELSE with_start

MissingMeter == "Missing required meter specifier"

\* 'if project' in place of 'elif project': both owners constrain the query.
OwnerClause_Both(event_filter) ==
    LET q1 == IF Truthy(event_filter.user)
              THEN Put(EmptyDict, "user_id", event_filter.user) ELSE EmptyDict
    IN  IF Truthy(event_filter.project)
        THEN Put(q1, "project_id", event_filter.project) ELSE q1

\* if event_filter.user: ... elif event_filter.project: ...
OwnerClause(event_filter) ==
    IF Truthy(event_filter.user)
    THEN Put(EmptyDict, "user_id", event_filter.user)
    ELSE IF Truthy(event_filter.project)
    THEN Put(EmptyDict, "project_id", event_filter.project)
    ELSE EmptyDict

\* The clauses that follow the meter check.
RestOfQuery(q2, event_filter, ts_range) ==
    LET q3 == IF ts_range # EmptyDict THEN Put(q2, "timestamp", ts_range) ELSE q2
        q4 == IF Truthy(event_filter.resource)
              THEN Put(q3, "resource_id", event_filter.resource) ELSE q3
    IN  IF Truthy(event_filter.source)
        THEN Put(q4, "source", event_filter.source) ELSE q4

\* The meter check left out: a filter without a meter translates.
make_query_from_filter_NoCheck(event_filter, require_meter) ==
    LET q1 == OwnerClause(event_filter)
        q2 == IF Truthy(event_filter.meter)
              THEN Put(q1, "counter_name", event_filter.meter) ELSE q1
    IN  [ raised |-> FALSE,
          q |-> RestOfQuery(q2, event_filter,
                   make_timestamp_range(event_filter.start, event_filter.end)) ]

\* The value is the query, or the error raised.
make_query_from_filter(event_filter, require_meter) ==
    LET q1 == OwnerClause(event_filter)
        q2 == IF Truthy(event_filter.meter)
              THEN Put(q1, "counter_name", event_filter.meter) ELSE q1
        ts_range == make_timestamp_range(event_filter.start, event_filter.end)
    IN  IF ~Truthy(event_filter.meter) /\ require_meter
        THEN [ raised |-> TRUE, error |-> MissingMeter ]
        ELSE [ raised |-> FALSE, q |-> RestOfQuery(q2, event_filter, ts_range) ]

\* A call of make_query_from_filter.
Translate(filters) ==
    \E event_filter \in filters, require_meter \in BOOLEAN :
        /\ ret' = [ op |-> "make_query_from_filter", filter |-> event_filter,
                    require_meter |-> require_meter, db_calls |-> 0 ]
                  @@ make_query_from_filter(event_filter, require_meter)
        /\ UNCHANGED << store, ingested, calls, conn >>

\* The call of make_query_from_filter on the arguments the behaviour started
\* with.
TranslateDrawn ==
    /\ ret.op = "arguments"
    /\ ret' = [ op |-> "make_query_from_filter", filter |-> ret.filter,
                require_meter |-> ret.require_meter, db_calls |-> 0 ]
              @@ make_query_from_filter(ret.filter, ret.require_meter)
    /\ UNCHANGED << store, ingested, calls, conn >>

-----------------------------------------------------------------------------
(* Listing operations *)

SourceQuery(source) ==
    IF source # None THEN Put(EmptyDict, "source", source) ELSE EmptyDict

get_users(source) ==
    sorted(Distinct(Find(user, SourceQuery(source), {"source"}), "_id"))

get_projects(source) ==
    sorted(Distinct(Find(project, SourceQuery(source), {"source"}), "_id"))

GetUsers(sources) ==
    \E source \in sources :
        /\ ret' = [ op |-> "get_users", source |-> source, raised |-> FALSE,
                    value |-> get_users(source) ]
        /\ UNCHANGED << store, ingested, calls, conn >>

GetProjects(sources) ==
    \E source \in sources :
        /\ ret' = [ op |-> "get_projects", source |-> source, raised |-> FALSE,
                    value |-> get_projects(source) ]
        /\ UNCHANGED << store, ingested, calls, conn >>

\* r = {}; r.update(resource); r['resource_id'] = r['_id']; del r['_id']
Reshape(doc) ==
    [ k \in (DOMAIN doc \ { "_id" }) \cup { "resource_id" } |->
        IF k = "resource_id" THEN doc._id ELSE doc[k] ]

\* 'elif project' as in make_query_from_filter: a given user hides the project.
ResourceQuery_UserWins(user_, project_, source) ==
    LET q1 == IF user_ # None THEN Put(EmptyDict, "user_id", user_)
              ELSE IF project_ # None THEN Put(EmptyDict, "project_id", project_)
              ELSE EmptyDict
    IN  IF source # None THEN Put(q1, "source", source) ELSE q1

\* The query on user, project and source that get_resources starts from.
ResourceQuery(user_, project_, source) ==
    LET q1 == IF user_ # None THEN Put(EmptyDict, "user_id", user_) ELSE EmptyDict
        q2 == IF project_ # None THEN Put(q1, "project_id", project_) ELSE q1
    IN  IF source # None THEN Put(q2, "source", source) ELSE q2

\* The time range applied to the registry's own timestamp, not to the raw log.
get_resources_Registry(user_, project_, source, start_timestamp, end_timestamp) ==
    LET q0 == ResourceQuery(user_, project_, source)
        ts_range == make_timestamp_range(start_timestamp, end_timestamp)
        q == IF ts_range # EmptyDict THEN Put(q0, "timestamp", ts_range) ELSE q0
        found == Find(resource, q, {})
    IN  [ i \in 1..Len(found) |-> Reshape(found[i]) ]

get_resources(user_, project_, source, start_timestamp, end_timestamp) ==
    LET q0 == ResourceQuery(user_, project_, source)
        ts_range == make_timestamp_range(start_timestamp, end_timestamp)
        q1 == IF ts_range # EmptyDict THEN Put(q0, "timestamp", ts_range) ELSE q0
        resource_ids == Distinct(Find(meter, q1, {}), "resource_id")
        q == IF TruthyTime(start_timestamp) \/ TruthyTime(end_timestamp)
             THEN Put(EmptyDict, "_id", Put(EmptyDict, "$in", resource_ids))
             ELSE q0
        found == Find(resource, q, {})
    IN  [ i \in 1..Len(found) |-> Reshape(found[i]) ]

GetResources(users, projects, sources, times) ==
    \E user_ \in users, project_ \in projects, source \in sources,
       start_timestamp \in times, end_timestamp \in times :
        /\ ret' = [ op |-> "get_resources", user |-> user_, project |-> project_,
                    source |-> source, start_timestamp |-> start_timestamp,
                    end_timestamp |-> end_timestamp, raised |-> FALSE,
                    value |-> get_resources(user_, project_, source,
                                            start_timestamp, end_timestamp) ]
        /\ UNCHANGED << store, ingested, calls, conn >>

\* The event yielded as the store returned it.
Strip_Keep(doc) == doc

\* del e['_id']
Strip(doc) == [ k \in DOMAIN doc \ { "_id" } |-> doc[k] ]

\* The events a consumer of the generator receives; make_query_from_filter
\* runs when the generator is first advanced.
get_raw_events(event_filter) ==
    LET t == make_query_from_filter(event_filter, FALSE)
    IN  IF t.raised
        THEN [ raised |-> TRUE, error |-> t.error, db_calls |-> 0 ]
        ELSE LET events == Find(meter, t.q, {})
             IN  [ raised |-> FALSE, db_calls |-> 1,
                   value |-> [ i \in 1..Len(events) |-> Strip(events[i]) ] ]

GetRawEvents(filters) ==
    \E event_filter \in filters :
        /\ ret' = [ op |-> "get_raw_events", filter |-> event_filter ]
                  @@ get_raw_events(event_filter)
        /\ UNCHANGED << store, ingested, calls, conn >>

-----------------------------------------------------------------------------
(* Aggregation *)

MAP_COUNTER_VOLUME(doc) == [ key |-> doc.resource_id, value |-> doc.counter_volume ]

\* Math.min in place of Math.max.
REDUCE_MAX_Min(key, values) ==
    CHOOSE m \in ToSet(values) : \A i \in 1..Len(values) : m <= values[i]

REDUCE_MAX(key, values) ==
    CHOOSE m \in ToSet(values) : \A i \in 1..Len(values) : m >= values[i]

RECURSIVE SumLoop(_, _, _)
SumLoop(values, i, total) ==
    IF i > Len(values) THEN total ELSE SumLoop(values, i + 1, total + values[i])

\* The loop started at i = 1: values[0] is left out of the total.
REDUCE_SUM_SkipFirst(key, values) == SumLoop(values, 2, 0)

REDUCE_SUM(key, values) == SumLoop(values, 1, 0)

\* The key every sample is emitted under by MAP_TIMESTAMP: 'timestamp'.
TimestampKey == << 1 >>

MAP_TIMESTAMP(doc) ==
    [ key |-> TimestampKey,
      value |-> [ min |-> doc.timestamp, max |-> doc.timestamp ] ]

RECURSIVE MinMaxLoop(_, _, _)
MinMaxLoop(values, i, res) ==
    IF i > Len(values) THEN res
    ELSE MinMaxLoop(values, i + 1,
            [ min |-> IF values[i].min < res.min THEN values[i].min ELSE res.min,
              max |-> IF values[i].max > res.max THEN values[i].max ELSE res.max ])

REDUCE_MIN_MAX(key, values) == MinMaxLoop(values, 2, values[1])

\* The engine's call of a map function, given as its JavaScript code.
CallMap(map, doc) ==
    CASE map = "MAP_COUNTER_VOLUME" -> MAP_COUNTER_VOLUME(doc)
      [] map = "MAP_TIMESTAMP"      -> MAP_TIMESTAMP(doc)

\* The engine's call of a reduce function, given as its JavaScript code.
CallReduce(reduce, key, values) ==
    CASE reduce = "REDUCE_SUM"     -> REDUCE_SUM(key, values)
      [] reduce = "REDUCE_MAX"     -> REDUCE_MAX(key, values)
      [] reduce = "REDUCE_MIN_MAX" -> REDUCE_MIN_MAX(key, values)

\* db.meter.map_reduce(map, reduce, {'inline': 1}, query=q).  The engine
\* groups the emitted values by key and is free in how it applies reduce:
\* the values of the documents in split and those of the others are reduced
\* apart and the two partial results reduced again; a lone value is its own
\* result.  The results come ordered by key.
map_reduce(map, reduce, q, split) ==
    LET docs == Find(meter, q, {})
        Reduce(key, values) == CallReduce(reduce, key, values)
        emitted == [ i \in 1..Len(docs) |-> CallMap(map, docs[i]) ]
        keys == sorted(Distinct(emitted, "key"))
        ValuesOf(key, first) ==
            LET at == SelectSeq([ i \in 1..Len(emitted) |-> i ],
                                LAMBDA i : /\ emitted[i].key = key
                                           /\ (i \in split) = first)
            IN  [ j \in 1..Len(at) |-> emitted[at[j]].value ]
        Group(key, values) ==
            IF Len(values) = 1 THEN values[1] ELSE Reduce(key, values)
        ValueOf(key) ==
            LET v1 == ValuesOf(key, TRUE)
                v2 == ValuesOf(key, FALSE)
            IN  IF v1 = << >> THEN Group(key, v2)
                ELSE IF v2 = << >> THEN Group(key, v1)
                ELSE Reduce(key, << Group(key, v1), Group(key, v2) >>)
    IN  [ i \in 1..Len(keys) |-> [ _id |-> keys[i], value |-> ValueOf(keys[i]) ] ]

\* ({'resource_id': r['_id'], 'value': r['value']} for r in results['results'])
VolumeResult(results) ==
    [ i \in 1..Len(results) |->
        [ resource_id |-> results[i]._id, value |-> results[i].value ] ]

get_volume_sum(event_filter, split) ==
    LET t == make_query_from_filter(event_filter, TRUE)
    IN  IF t.raised
        THEN [ raised |-> TRUE, error |-> t.error, db_calls |-> 0 ]
        ELSE [ raised |-> FALSE, db_calls |-> 1,
               value |-> VolumeResult(
                            map_reduce("MAP_COUNTER_VOLUME", "REDUCE_SUM", t.q, split)) ]

get_volume_max(event_filter, split) ==
    LET t == make_query_from_filter(event_filter, TRUE)
    IN  IF t.raised
        THEN [ raised |-> TRUE, error |-> t.error, db_calls |-> 0 ]
        ELSE [ raised |-> FALSE, db_calls |-> 1,
               value |-> VolumeResult(
                            map_reduce("MAP_COUNTER_VOLUME", "REDUCE_MAX", t.q, split)) ]

MsPerSecond == 1000

\* datetime.datetime.fromtimestamp(x.valueOf() // 1000)
FromValueOf(x) == (x \div MsPerSecond) * MsPerSecond

\* has_valueOf: whether the store hands back date objects with a valueOf
\* method (the in-memory store of the tests) or datetime instances.
get_event_interval(event_filter, split, has_valueOf) ==
    LET t == make_query_from_filter(event_filter, TRUE)
    IN  IF t.raised
        THEN [ raised |-> TRUE, error |-> t.error, db_calls |-> 0 ]
        ELSE LET results == map_reduce("MAP_TIMESTAMP", "REDUCE_MIN_MAX", t.q, split)
             IN  [ raised |-> FALSE, db_calls |-> 1,
                   value |->
                      IF results # << >>
                      THEN LET answer == results[1].value
                           IN  IF has_valueOf
                               THEN << FromValueOf(answer.min), FromValueOf(answer.max) >>
                               ELSE << answer.min, answer.max >>
                      ELSE << NoTime, NoTime >> ]

\* The ways the engine may split the matching documents.
Splits == SUBSET (1..Len(meter))

GetVolumeSum(filters) ==
    \E event_filter \in filters, split \in Splits :
        /\ ret' = [ op |-> "get_volume_sum", filter |-> event_filter ]
                  @@ get_volume_sum(event_filter, split)
        /\ UNCHANGED << store, ingested, calls, conn >>

GetVolumeMax(filters) ==
    \E event_filter \in filters, split \in Splits :
        /\ ret' = [ op |-> "get_volume_max", filter |-> event_filter ]
                  @@ get_volume_max(event_filter, split)
        /\ UNCHANGED << store, ingested, calls, conn >>

GetEventInterval(filters) ==
    \E event_filter \in filters, split \in Splits, has_valueOf \in BOOLEAN :
        /\ ret' = [ op |-> "get_event_interval", filter |-> event_filter,
                    has_valueOf |-> has_valueOf ]
                  @@ get_event_interval(event_filter, split, has_valueOf)
        /\ UNCHANGED << store, ingested, calls, conn >>

-----------------------------------------------------------------------------
(* Inputs *)

Sa == << 1 >>

Sab == << 1, 2 >>

Sb == << 2 >>

MetaA == [ display_name |-> "test-server" ]

MetaB == [ tag |-> "self.counter2" ]

\* The values utcnow() may return during a call.
Clock == { 1, 2 }

\* The number of record_metering_data calls of a behaviour.
MaxLog == 3

\* Samples that differ in owner and source.
OwnerSamples ==
    [ source            : { Sa, Sb },
      user_id           : { Sa, Sab, Sb },
      project_id        : { Sab, Sb },
      resource_id       : { Sa },
      counter_name      : { Sa },
      counter_type      : { Sb },
      counter_volume    : { 1 },
      timestamp         : { 1 },
      resource_metadata : { MetaA } ]

\* Samples that differ in the three registry keys and in source.
KeySamples ==
    [ source            : { Sa, Sb },
      user_id           : { Sa, Sab },
      project_id        : { Sab, Sb },
      resource_id       : { Sa, Sb },
      counter_name      : { Sa },
      counter_type      : { Sb },
      counter_volume    : { 1 },
      timestamp         : { 1 },
      resource_metadata : { MetaA } ]

\* The number of calls where the samples differ in six fields.
MaxShortLog == 2

\* Samples that differ in everything the resource record copies.
ResourceSamples ==
    [ source            : { Sa, Sb },
      user_id           : { Sa, Sab },
      project_id        : { Sab, Sb },
      resource_id       : { Sa, Sb },
      counter_name      : { Sa },
      counter_type      : { Sb },
      counter_volume    : { 1 },
      timestamp         : { 1, 2 },
      resource_metadata : { MetaA, MetaB } ]

\* Samples that differ in resource, meter pair and user.
MeterSamples ==
    [ source            : { Sa },
      user_id           : { Sa, Sab },
      project_id        : { Sb },
      resource_id       : { Sa, Sb },
      counter_name      : { Sa, Sab },
      counter_type      : { Sa, Sb },
      counter_volume    : { 1 },
      timestamp         : { 1 },
      resource_metadata : { MetaA } ]

\* Samples that differ in resource, timestamp and metadata.
TimeSamples ==
    [ source            : { Sa },
      user_id           : { Sa },
      project_id        : { Sb },
      resource_id       : { Sa, Sb },
      counter_name      : { Sa },
      counter_type      : { Sb },
      counter_volume    : { 1 },
      timestamp         : { 1, 2 },
      resource_metadata : { MetaA, MetaB } ]

\* The start and end arguments: absent, or a point on the time axis.
TimeArgs == { NoTime, 1, 2, 3 }

\* Samples that differ in owner and, with the project, in timestamp and
\* volume.
OwnerVolumeSamples ==
    { [ s EXCEPT !.counter_volume = IF s.project_id = Sab THEN 1 ELSE 2,
                 !.timestamp = IF s.project_id = Sab THEN 1 ELSE 2 ] :
        s \in [ source            : { Sa },
                user_id           : { Sa, Sab },
                project_id        : { Sab, Sb },
                resource_id       : { Sa },
                counter_name      : { Sa },
                counter_type      : { Sb },
                counter_volume    : { 1 },
                timestamp         : { 1 },
                resource_metadata : { MetaA } ] }

\* Samples that differ in resource, meter and volume.
VolumeSamples ==
    [ source            : { Sa },
      user_id           : { Sa },
      project_id        : { Sb },
      resource_id       : { Sa, Sb },
      counter_name      : { Sa, Sab },
      counter_type      : { Sb },
      counter_volume    : { 1, 2 },
      timestamp         : { 1 },
      resource_metadata : { MetaA } ]

\* Samples that differ in every field a filter can constrain.
FilterSamples ==
    [ source            : { Sa, Sb },
      user_id           : { Sa, Sb },
      project_id        : { Sa, Sb },
      resource_id       : { Sa, Sb },
      counter_name      : { Sa, Sb },
      counter_type      : { Sb },
      counter_volume    : { 1 },
      timestamp         : { 1, 2 },
      resource_metadata : { MetaA } ]

\* Samples that differ in meter and in timestamp: on a whole second and
\* half a second later.
IntervalSamples ==
    [ source            : { Sa },
      user_id           : { Sa },
      project_id        : { Sb },
      resource_id       : { Sa },
      counter_name      : { Sa, Sab },
      counter_type      : { Sb },
      counter_volume    : { 1 },
      timestamp         : { 1000, 1500, 2000 },
      resource_metadata : { MetaA } ]

\* The callers of record_metering_data.
Callers == { 1, 2 }

\* Samples of concurrent callers: they differ in source, user, resource and
\* meter, and with the source in timestamp, with the meter in project, with
\* the user in metadata.
ConcurrentSamples ==
    { [ s EXCEPT !.timestamp = IF s.source = Sa THEN 1 ELSE 2,
                 !.project_id = IF s.counter_name = Sa THEN Sab ELSE Sb,
                 !.resource_metadata = IF s.user_id = Sa THEN MetaA ELSE MetaB ] :
        s \in [ source            : { Sa, Sb },
                user_id           : { Sa, Sab },
                project_id        : { Sb },
                resource_id       : { Sa, Sb },
                counter_name      : { Sa, Sab },
                counter_type      : { Sb },
                counter_volume    : { 1 },
                timestamp         : { 1 },
                resource_metadata : { MetaA } ] }

\* Samples of a caller that changes its sample afterwards.
CallerSamples ==
    [ source            : { Sa },
      user_id           : { Sa, Sab },
      project_id        : { Sb },
      resource_id       : { Sa, Sb },
      counter_name      : { Sa },
      counter_type      : { Sb },
      counter_volume    : { 1 },
      timestamp         : { 1 },
      resource_metadata : { MetaA } ]

\* Network locations of connection URLs: h, h:1, h:0, h:, a:a@h,
\* a1:1@h:10, a-:a@h, a:a@h:a, a@h.
Urls ==
    { << Letter >>,
      << Letter, Colon, One >>,
      << Letter, Colon, Zero >>,
      << Letter, Colon >>,
      << Letter, Colon, Letter, AtSign, Letter >>,
      << Letter, One, Colon, One, AtSign, Letter, Colon, One, Zero >>,
      << Letter, Dash, Colon, Letter, AtSign, Letter >>,
      << Letter, Colon, Letter, AtSign, Letter, Colon, Letter >>,
      << Letter, AtSign, Letter >> }

\* Samples that differ in user, resource and meter.
FrameSamples ==
    [ source            : { Sa },
      user_id           : { Sa, Sab },
      project_id        : { Sb },
      resource_id       : { Sa, Sb },
      counter_name      : { Sa, Sab },
      counter_type      : { Sb },
      counter_volume    : { 1 },
      timestamp         : { 1 },
      resource_metadata : { MetaA } ]

\* A filter without constraint.
NoFilter ==
    [ user |-> None, project |-> None, meter |-> None, resource |-> None,
      source |-> None, start |-> NoTime, end |-> NoTime ]

\* Every filter over absent, empty and two given values per dimension.
AllFilters ==
    [ user     : { None, << >>, Sa, Sb },
      project  : { None, << >>, Sa, Sb },
      meter    : { None, << >>, Sa, Sb },
      resource : { None, << >>, Sa, Sb },
      source   : { None, << >>, Sa, Sb },
      start    : { NoTime, 1, 2 },
      end      : { NoTime, 1, 2 } ]

\* Filters on a meter and an owner.
OwnerFilters ==
    { [ NoFilter EXCEPT !.user = u, !.project = p, !.meter = Sa ] :
        u \in { None, << >>, Sa }, p \in { None, Sab } }

\* Filters with and without a meter.
MeterFilters ==
    { [ NoFilter EXCEPT !.meter = m, !.resource = r ] :
        m \in { None, << >>, Sa }, r \in { None, Sa } }

\* Filters on a meter and a resource.
SumFilters ==
    { [ NoFilter EXCEPT !.meter = m, !.resource = r ] :
        m \in { Sa, Sab }, r \in { None, Sa } }

\* Filters on a meter, with and without a window.
IntervalFilters ==
    { [ NoFilter EXCEPT !.meter = Sa, !.start = t ] : t \in { NoTime, 1500 } }

\* No filter, and the filter on a meter.
FrameFilters == { NoFilter, [ NoFilter EXCEPT !.meter = Sa ] }

\* The source arguments of the listings: absent, empty, reported.
SourceArgs == { None, << >>, Sa, Sb }

-----------------------------------------------------------------------------
(* Specifications *)

Init ==
    /\ user = << >>
    /\ project = << >>
    /\ resource = << >>
    /\ meter = << >>
    /\ ingested = << >>
    /\ ret = [ op |-> "none" ]
    /\ calls = [ p \in Callers |-> Idle ]
    /\ conn = Connection_init(<< Letter >>, {})

Ingest(samples, clock, max) ==
    /\ Len(ingested) < max
    /\ \E data \in samples, utcnow \in clock : record_metering_data(data, utcnow)

\* The owner registries and their listings.
Next ==
    \/ Ingest(OwnerSamples, { 1 }, MaxLog)
    \/ GetUsers(SourceArgs)
    \/ GetProjects(SourceArgs)

Spec == Init /\ [][Next]_vars

\* The three registries under ingestion.
NextRegistry == Ingest(KeySamples, Clock, MaxLog)

SpecRegistry == Init /\ [][NextRegistry]_vars

\* The resource registry under samples that differ in every copied field.
NextResource == Ingest(ResourceSamples, { 1 }, MaxShortLog)

SpecResource == Init /\ [][NextResource]_vars

\* The meter set of the resource registry.
NextMeter == Ingest(MeterSamples, { 1 }, MaxLog)

SpecMeter == Init /\ [][NextMeter]_vars

\* The resource listing with and without a time range.
NextTime ==
    \/ Ingest(TimeSamples, { 1 }, MaxLog)
    \/ GetResources({ None }, { None }, { None }, TimeArgs)

SpecTime == Init /\ [][NextTime]_vars

\* The translation alone, on every filter.
InitTranslate ==
    /\ user = << >>
    /\ project = << >>
    /\ resource = << >>
    /\ meter = << >>
    /\ ingested = << >>
    /\ ret \in { [ op |-> "arguments", filter |-> f, require_meter |-> b ] :
                   f \in AllFilters, b \in BOOLEAN }
    /\ calls = [ p \in Callers |-> Idle ]
    /\ conn = Connection_init(<< Letter >>, {})

NextTranslate == TranslateDrawn

SpecTranslate == InitTranslate /\ [][NextTranslate]_vars

\* Every query that takes a filter, on filters with and without a meter.
NextAggregate ==
    \/ Ingest(VolumeSamples, { 1 }, MaxShortLog)
    \/ Translate(MeterFilters)
    \/ GetRawEvents(MeterFilters)
    \/ GetVolumeSum(MeterFilters)
    \/ GetVolumeMax(MeterFilters)
    \/ GetEventInterval(MeterFilters)

SpecAggregate == Init /\ [][NextAggregate]_vars

\* Every query that takes a filter, on filters by owner.
NextOwnerFilter ==
    \/ Ingest(OwnerVolumeSamples, { 1 }, MaxShortLog)
    \/ Translate(OwnerFilters)
    \/ GetRawEvents(OwnerFilters)
    \/ GetVolumeSum(OwnerFilters)
    \/ GetVolumeMax(OwnerFilters)
    \/ GetEventInterval(OwnerFilters)

SpecOwnerFilter == Init /\ [][NextOwnerFilter]_vars

\* The volume sum.
NextSum ==
    \/ Ingest(VolumeSamples, { 1 }, MaxLog)
    \/ GetVolumeSum(SumFilters)

SpecSum == Init /\ [][NextSum]_vars

\* The volume maximum.
NextMax ==
    \/ Ingest(VolumeSamples, { 1 }, MaxLog)
    \/ GetVolumeMax(SumFilters)

SpecMax == Init /\ [][NextMax]_vars

\* The resource listing by owner and source, without a time range.
NextListing ==
    \/ Ingest(KeySamples, { 1 }, MaxShortLog)
    \/ GetResources({ None, Sa }, { None, Sb }, { None, Sa }, { NoTime })

SpecListing == Init /\ [][NextListing]_vars

\* Two callers whose calls interleave statement by statement and may fail
\* between statements.
NextConcurrent ==
    \E p \in Callers :
        \/ Call(p, ConcurrentSamples)
        \/ UpdateUser(p)
        \/ UpdateProject(p)
        \/ UpdateResource(p, { 1 })
        \/ InsertRecord(p)
        \/ Crash(p)

SpecConcurrent == Init /\ [][NextConcurrent]_vars

\* Callers that change their sample after the call, and the two listings
\* that return what was stored.
NextCaller ==
    \/ \E p \in Callers :
          \/ Call(p, CallerSamples)
          \/ UpdateUser(p)
          \/ UpdateProject(p)
          \/ UpdateResource(p, { 1 })
          \/ InsertRecord(p)
          \/ Mutate(p)
    \/ GetRawEvents({ NoFilter })
    \/ GetResources({ None }, { None }, { None }, { NoTime })

SpecCaller == Init /\ [][NextCaller]_vars

\* Before Connection(conf): no Connection, a database without indexes.
InitBootstrap ==
    /\ user = << >>
    /\ project = << >>
    /\ resource = << >>
    /\ meter = << >>
    /\ ingested = << >>
    /\ ret = [ op |-> "none" ]
    /\ calls = [ p \in Callers |-> Idle ]
    /\ conn = [ state |-> "none", ops |-> << >>, indexes |-> {} ]

\* The bootstrap, run once or again, and the operations of the Connection
\* it returned.
NextBootstrap ==
    \/ Bootstrap(Urls)
    \/ conn.state = "ready" /\ Ingest(OwnerSamples, { 1 }, MaxShortLog)
    \/ conn.state = "ready" /\ GetUsers({ None })

SpecBootstrap == InitBootstrap /\ [][NextBootstrap]_vars

\* The write path and every query operation.
NextFrame ==
    \/ Ingest(FrameSamples, { 1 }, MaxShortLog)
    \/ GetUsers({ None })
    \/ GetProjects({ None })
    \/ GetResources({ None }, { None }, { None }, { NoTime, 1 })
    \/ GetRawEvents(FrameFilters)
    \/ GetVolumeSum(FrameFilters)
    \/ GetVolumeMax(FrameFilters)
    \/ GetEventInterval(FrameFilters)
    \/ Translate(FrameFilters)

SpecFrame == Init /\ [][NextFrame]_vars

\* The event interval.
NextInterval ==
    \/ Ingest(IntervalSamples, { 1 }, MaxLog)
    \/ GetEventInterval(IntervalFilters)

SpecInterval == Init /\ [][NextInterval]_vars

\* The raw events, on filters with and without a meter.
NextEvents ==
    \/ Ingest(VolumeSamples, { 1 }, MaxLog)
    \/ GetRawEvents(MeterFilters)

SpecEvents == Init /\ [][NextEvents]_vars

-----------------------------------------------------------------------------
(* Properties *)

\* The indices of the ingested samples that satisfy a condition.
Ingested(P(_)) == { j \in 1..Len(ingested) : P(ingested[j]) }

\* The keys of a registry.
Keys(coll) == { coll[i]._id : i \in 1..Len(coll) }

\* C1: after any sequence of completed record_metering_data calls each
\* registry is the projection of what was ingested: a user, project or
\* resource record exists for a key iff some ingested sample carries that
\* key, and the source set of a user (project) record is exactly the set of
\* sources of the ingested samples of that user (project).
C1_RegistriesProjectIngested ==
    /\ Keys(user) = { ingested[j].user_id : j \in 1..Len(ingested) }
    /\ Keys(project) = { ingested[j].project_id : j \in 1..Len(ingested) }
    /\ Keys(resource) = { ingested[j].resource_id : j \in 1..Len(ingested) }
    /\ \A i \in 1..Len(user) :
          ToSet(user[i].source) =
              { ingested[j].source :
                  j \in Ingested(LAMBDA s : s.user_id = user[i]._id) }
    /\ \A i \in 1..Len(project) :
          ToSet(project[i].source) =
              { ingested[j].source :
                  j \in Ingested(LAMBDA s : s.project_id = project[i]._id) }

\* Three calls: one user under two sources, a second user under one, two
\* projects and two resources.
C1_Witness ==
    /\ Len(ingested) = 3
    /\ Keys(user) = { Sa, Sab }
    /\ Keys(resource) = { Sa, Sb }
    /\ Keys(project) = { Sab, Sb }
    /\ \E i \in 1..Len(user) : ToSet(user[i].source) = { Sa, Sb }
    /\ \E i \in 1..Len(user) : ToSet(user[i].source) = { Sb }

\* a sorts before b in lexicographic order: b continues a, or the two differ
\* first at a position where a holds the smaller character.
LexBefore(a, b) ==
    \E k \in 1..Len(b) :
        /\ \A i \in 1..(k - 1) : i <= Len(a) /\ a[i] = b[i]
        /\ k > Len(a) \/ a[k] < b[k]

\* A registry's source set may only grow in a step.
SourcesKept(coll, coll2) ==
    \A i \in 1..Len(coll) :
        \E j \in 1..Len(coll2) :
            /\ coll2[j]._id = coll[i]._id
            /\ ToSet(coll[i].source) \subseteq ToSet(coll2[j].source)

\* The source arrays of the records of a key.
SourcesOf(coll, key) ==
    { coll[i].source : i \in { n \in 1..Len(coll) : coll[n]._id = key } }

C2_Step ==
    /\ SourcesKept(user, user')
    /\ SourcesKept(project, project')
    /\ Len(ingested') = Len(ingested) + 1 =>
          LET data == ingested'[Len(ingested')]
          IN  /\ (\E j \in 1..Len(ingested) :
                      /\ ingested[j].user_id = data.user_id
                      /\ ingested[j].source = data.source)
                  => SourcesOf(user', data.user_id) = SourcesOf(user, data.user_id)
              /\ (\E j \in 1..Len(ingested) :
                      /\ ingested[j].project_id = data.project_id
                      /\ ingested[j].source = data.source)
                  => SourcesOf(project', data.project_id)
                         = SourcesOf(project, data.project_id)

C2_Twice ==
    /\ Len(ingested) = 2
    /\ ingested[1].user_id = ingested[2].user_id
    /\ ingested[1].source = ingested[2].source
    => user = << [ _id |-> ingested[1].user_id,
                   source |-> << ingested[1].source >> ] >>

\* C2: no step removes an element from the source set of a user or project
\* record; ingesting a sample whose (user_id, source) or (project_id, source)
\* pair was ingested before leaves that source set as it was; and the same
\* (user_id, source) pair ingested twice into an empty store gives one user
\* record whose source set holds that source once.
C2_SourceSetsOnlyGrow == [][C2_Step]_vars /\ []C2_Twice

\* The same (user_id, source) pair ingested twice, then the user under a
\* second source.
C2_Witness ==
    /\ Len(ingested) = 3
    /\ ingested[1].user_id = ingested[2].user_id
    /\ ingested[1].source = ingested[2].source
    /\ ingested[3].user_id = ingested[1].user_id
    /\ ingested[3].source # ingested[1].source
    /\ user = << [ _id |-> ingested[1].user_id,
                   source |-> << ingested[1].source, ingested[3].source >> ] >>

\* The listing of a set of keys: each key once, in ascending order.
IsListingOf(value, keys) ==
    /\ ToSet(value) = keys
    /\ Len(value) = Cardinality(keys)
    /\ \A i, j \in 1..Len(value) : i < j => LexBefore(value[i], value[j])

\* C3: list_users() returns the user ids of all ingested samples, each once,
\* in ascending lexicographic order; list_users(source=s) returns, in that
\* order, the user ids with at least one ingested sample of source s; the
\* result is the empty list, and no error, when nothing matches.
\* list_projects does the same over project ids.
C3_ListingsSortedAndFiltered ==
    /\ ret.op = "get_users" =>
          /\ ~ret.raised
          /\ IsListingOf(ret.value,
                { ingested[j].user_id :
                    j \in Ingested(LAMBDA s : ret.source = None \/ s.source = ret.source) })
    /\ ret.op = "get_projects" =>
          /\ ~ret.raised
          /\ IsListingOf(ret.value,
                { ingested[j].project_id :
                    j \in Ingested(LAMBDA s : ret.source = None \/ s.source = ret.source) })

\* list_users(source=Sb) after user Sab, then Sa, reported under Sb and user
\* Sb under Sa only: Sb is left out and Sa comes before Sab.
C3_Witness ==
    /\ ret.op = "get_users"
    /\ ret.source = Sb
    /\ ret.value = << Sa, Sab >>
    /\ Len(ingested) = 3
    /\ ingested[1].user_id = Sab
    /\ ingested[2].user_id = Sa
    /\ ingested[3].user_id = Sb

\* The position of the last ingested sample of a resource.
LastOf(resource_id) ==
    CHOOSE j \in 1..Len(ingested) :
        /\ ingested[j].resource_id = resource_id
        /\ \A n \in (j + 1)..Len(ingested) : ingested[n].resource_id # resource_id

\* C4: the resource record of r has the project_id, user_id, timestamp,
\* metadata and source of the sample with resource_id r that was ingested
\* last, whatever the samples' own timestamps; its metadata is that sample's
\* resource_metadata, with no key of an earlier sample's metadata.
C4_ResourceReflectsLastSample ==
    \A i \in 1..Len(resource) :
        LET last == ingested[LastOf(resource[i]._id)]
        IN  /\ resource[i].project_id = last.project_id
            /\ resource[i].user_id = last.user_id
            /\ resource[i].timestamp = last.timestamp
            /\ resource[i].metadata = last.resource_metadata
            /\ resource[i].source = last.source

\* Two samples of one resource that differ in every copied field, the second
\* with the older timestamp and with metadata under another key.
C4_Witness ==
    /\ Len(ingested) = 2
    /\ ingested[1].resource_id = ingested[2].resource_id
    /\ ingested[1].timestamp = 2 /\ ingested[2].timestamp = 1
    /\ ingested[1].resource_metadata = MetaA
    /\ ingested[2].resource_metadata = MetaB
    /\ ingested[1].user_id # ingested[2].user_id
    /\ ingested[1].project_id # ingested[2].project_id
    /\ ingested[1].source # ingested[2].source
    /\ Len(resource) = 1
    /\ resource[1].metadata = MetaB
    /\ resource[1].timestamp = 1

\* C5: the meter set of the resource record of r holds exactly the distinct
\* {counter_name, counter_type} pairs of the samples ingested with
\* resource_id r: a later ingest removes none, and a pair seen before is
\* not added again.
C5_MeterSetIsUnionOfPairs ==
    \A i \in 1..Len(resource) :
        /\ ToSet(resource[i].meter) =
              { MeterPair(ingested[j]) :
                  j \in Ingested(LAMBDA s : s.resource_id = resource[i]._id) }
        /\ Len(resource[i].meter) = Cardinality(ToSet(resource[i].meter))

\* One resource: a pair, a second pair from another user, the first pair again.
C5_Witness ==
    /\ Len(ingested) = 3
    /\ ingested[1].resource_id = ingested[2].resource_id
    /\ ingested[3] = ingested[1]
    /\ ingested[2].user_id # ingested[1].user_id
    /\ MeterPair(ingested[2]) # MeterPair(ingested[1])
    /\ Len(resource) = 1
    /\ resource[1].meter = << MeterPair(ingested[1]), MeterPair(ingested[2]) >>

\* The resource ids of a resource listing, in its order.
ResourceIds(value) == [ i \in 1..Len(value) |-> value[i].resource_id ]

\* Whether a timestamp lies in [start, end), an absent end not bounding it.
InWindow(t, start, end) ==
    /\ start # NoTime => start <= t
    /\ end # NoTime => t < end

\* C6: list_resources with no filter returns one record per distinct
\* resource_id ever ingested; with a time range and no other filter it
\* returns the resources with at least one ingested sample whose timestamp t
\* satisfies start <= t < end, whatever the registry's latest timestamp.
C6_ResourceListing ==
    ret.op = "get_resources" /\ ret.user = None /\ ret.project = None
        /\ ret.source = None =>
        /\ ~ret.raised
        /\ Len(ret.value) = Cardinality(ToSet(ResourceIds(ret.value)))
        /\ ToSet(ResourceIds(ret.value)) =
              { ingested[j].resource_id :
                  j \in Ingested(LAMBDA s :
                          InWindow(s.timestamp, ret.start_timestamp,
                                   ret.end_timestamp)) }

\* Window [2, 3): resource Sa has a sample at 2 and a later-ingested one at
\* 1, resource Sb one at 1 only; the listing holds Sa alone, whose record
\* shows timestamp 1.
C6_Witness ==
    /\ ret.op = "get_resources"
    /\ ret.start_timestamp = 2 /\ ret.end_timestamp = 3
    /\ Len(ingested) = 3
    /\ ingested[1].resource_id = Sa /\ ingested[1].timestamp = 2
    /\ ingested[2].resource_id = Sa /\ ingested[2].timestamp = 1
    /\ ingested[3].resource_id = Sb /\ ingested[3].timestamp = 1
    /\ Len(ret.value) = 1
    /\ ret.value[1].resource_id = Sa
    /\ ret.value[1].timestamp = 1

AggregateOps == { "get_volume_sum", "get_volume_max", "get_event_interval" }

C7_Outcome ==
    /\ ret.op = "make_query_from_filter" /\ ~Truthy(ret.filter.meter) =>
          /\ ret.require_meter => ret.raised /\ ret.error = MissingMeter
          /\ ~ret.require_meter => ~ret.raised
    /\ ret.op \in AggregateOps /\ ~Truthy(ret.filter.meter) =>
          /\ ret.raised
          /\ ret.error = MissingMeter
          /\ ret.db_calls = 0
    /\ ret.op = "get_raw_events" => ~ret.raised

C7_Frame == ret'.op \in AggregateOps /\ ret'.raised => UNCHANGED store

\* C7: for a filter whose meter is empty, translate with require_meter=true
\* fails with the 'missing required meter' error, so get_volume_sum,
\* get_volume_max and get_event_interval report that error from the call
\* itself, before any store access and with the four collections unchanged;
\* with require_meter=false (list_raw_events) the filter gives no such error.
C7_MissingMeterFailsBeforeStore == []C7_Outcome /\ [][C7_Frame]_vars

\* get_volume_sum with meter '' on a store that holds two samples.
C7_Witness ==
    /\ ret.op = "get_volume_sum"
    /\ ret.filter.meter = << >>
    /\ ret.raised
    /\ ret.db_calls = 0
    /\ Len(meter) = 2

\* The outcome of the call ret records, for another filter and split.
Recall(event_filter, split) ==
    CASE ret.op = "get_raw_events"     -> get_raw_events(event_filter)
      [] ret.op = "get_volume_sum"     -> get_volume_sum(event_filter, split)
      [] ret.op = "get_volume_max"     -> get_volume_max(event_filter, split)
      [] ret.op = "get_event_interval" ->
            get_event_interval(event_filter, split, ret.has_valueOf)

\* C8: for a filter with a non-empty user the translated query constrains
\* user_id and not project_id, whatever the filter's project, so the raw
\* events and the aggregates for user=u, project=p are those for the same
\* filter with project unset; project_id is constrained only when user is
\* empty and project is not.
C8_UserWinsOverProject ==
    /\ ret.op = "make_query_from_filter" /\ ~ret.raised =>
          /\ Truthy(ret.filter.user) =>
                /\ "user_id" \in DOMAIN ret.q
                /\ ret.q["user_id"] = ret.filter.user
                /\ "project_id" \notin DOMAIN ret.q
          /\ "project_id" \in DOMAIN ret.q <=>
                ~Truthy(ret.filter.user) /\ Truthy(ret.filter.project)
          /\ "project_id" \in DOMAIN ret.q =>
                ret.q["project_id"] = ret.filter.project
    /\ ret.op \in AggregateOps \cup { "get_raw_events" }
          /\ Truthy(ret.filter.user) =>
          \A split \in Splits :
              LET other == Recall([ ret.filter EXCEPT !.project = None ], split)
              IN  /\ ret.raised = other.raised
                  /\ ~ret.raised => ret.value = other.value

\* The sum for user Sa and project Sab when Sa has a sample of volume 1 in
\* project Sab and one of volume 2 in project Sb: both are counted.
C8_Witness ==
    /\ ret.op = "get_volume_sum"
    /\ ret.filter.user = Sa
    /\ ret.filter.project = Sab
    /\ Len(ingested) = 2
    /\ ingested[1].user_id = Sa /\ ingested[1].project_id = Sab
    /\ ingested[1].counter_volume = 1
    /\ ingested[2].user_id = Sa /\ ingested[2].project_id = Sb
    /\ ingested[2].counter_volume = 2
    /\ ret.value = << [ resource_id |-> Sa, value |-> 3 ] >>

\* Whether a filter selects a sample: the owner (the user if given, else the
\* project if given), the meter, the resource and the source each equal the
\* sample's field when given, and the timestamp lies in [start, end).
Selects(f, s) ==
    /\ Truthy(f.user) => s.user_id = f.user
    /\ ~Truthy(f.user) /\ Truthy(f.project) => s.project_id = f.project
    /\ Truthy(f.meter) => s.counter_name = f.meter
    /\ Truthy(f.resource) => s.resource_id = f.resource
    /\ Truthy(f.source) => s.source = f.source
    /\ InWindow(s.timestamp, f.start, f.end)

\* C9: the translated query matches a sample iff every non-empty dimension
\* among ownership, meter, resource and source equals the sample's field and
\* the sample's timestamp t satisfies start <= t when start is given and
\* t < end when end is given; an absent dimension constrains nothing, and
\* the query has no timestamp clause when neither start nor end is given.
C9_QueryMatchesWhatFilterSelects ==
    ret.op = "make_query_from_filter" /\ ~ret.raised =>
        /\ \A s \in FilterSamples :
              Matches(s, ret.q, {}) <=> Selects(ret.filter, s)
        /\ "timestamp" \in DOMAIN ret.q <=>
              ret.filter.start # NoTime \/ ret.filter.end # NoTime

\* The filter with user '', project Sa, meter Sb and the window [1, 2): the
\* query is on project_id, counter_name and timestamp; of two samples that
\* differ in timestamp alone the one at 1 matches and the one at 2 does not.
C9_Witness ==
    /\ ret.op = "make_query_from_filter"
    /\ ~ret.raised
    /\ ret.filter = [ NoFilter EXCEPT !.user = << >>, !.project = Sa,
                                      !.meter = Sb, !.start = 1, !.end = 2 ]
    /\ DOMAIN ret.q = { "project_id", "counter_name", "timestamp" }
    /\ \E s \in FilterSamples :
          /\ s.timestamp = 1
          /\ Matches(s, ret.q, {})
          /\ ~Matches([ s EXCEPT !.timestamp = 2 ], ret.q, {})

\* The sum of counter_volume over the ingested samples at a set of positions.
RECURSIVE VolumeOf(_)
VolumeOf(positions) ==
    IF positions = {} THEN 0
    ELSE LET j == CHOOSE n \in positions : TRUE
         IN  ingested[j].counter_volume + VolumeOf(positions \ { j })

\* C10: for a filter with a meter, get_volume_sum returns one {resource_id,
\* value} pair per distinct resource_id among the matching samples, none
\* when nothing matches, with value the sum of counter_volume over that
\* resource's matching samples, a sample ingested twice counting twice;
\* the sums are the same however the matching samples are split in two
\* parts that are reduced apart and whose partial sums are reduced again.
C10_VolumeSumPerResource ==
    ret.op = "get_volume_sum" /\ Truthy(ret.filter.meter) =>
        LET matching == Ingested(LAMBDA s : Selects(ret.filter, s))
        IN  /\ ~ret.raised
            /\ ToSet(ResourceIds(ret.value))
                  = { ingested[j].resource_id : j \in matching }
            /\ Len(ret.value) = Cardinality(ToSet(ResourceIds(ret.value)))
            /\ \A i \in 1..Len(ret.value) :
                  ret.value[i].value =
                      VolumeOf({ j \in matching :
                                   ingested[j].resource_id
                                       = ret.value[i].resource_id })

\* Meter Sa: resource Sa reported volume 2 twice and volume 1 once.
C10_Witness ==
    /\ ret.op = "get_volume_sum"
    /\ ret.filter.meter = Sa
    /\ Len(ingested) = 3
    /\ ingested[1] = ingested[2]
    /\ ingested[1].counter_volume = 2
    /\ ingested[3] = [ ingested[1] EXCEPT !.counter_volume = 1 ]
    /\ ingested[1].resource_id = Sa
    /\ ingested[1].counter_name = Sa
    /\ ret.value = << [ resource_id |-> Sa, value |-> 5 ] >>

\* C11: for a filter with a meter, get_volume_max returns one {resource_id,
\* value} pair per distinct resource_id among the matching samples, with
\* value the largest counter_volume of that resource's matching samples,
\* however the matching samples are split in two parts that are reduced
\* apart and whose partial maxima are reduced again.
C11_VolumeMaxPerResource ==
    ret.op = "get_volume_max" /\ Truthy(ret.filter.meter) =>
        LET matching == Ingested(LAMBDA s : Selects(ret.filter, s))
            Of(resource_id) ==
                { j \in matching : ingested[j].resource_id = resource_id }
        IN  /\ ~ret.raised
            /\ ToSet(ResourceIds(ret.value))
                  = { ingested[j].resource_id : j \in matching }
            /\ Len(ret.value) = Cardinality(ToSet(ResourceIds(ret.value)))
            /\ \A i \in 1..Len(ret.value) :
                  /\ \E j \in Of(ret.value[i].resource_id) :
                        ingested[j].counter_volume = ret.value[i].value
                  /\ \A j \in Of(ret.value[i].resource_id) :
                        ingested[j].counter_volume <= ret.value[i].value

\* Meter Sa: resource Sa reported volume 1, then 2, then 1 again, which the
\* engine reduces together with the 2 or apart from it.
C11_Witness ==
    /\ ret.op = "get_volume_max"
    /\ ret.filter.meter = Sa
    /\ Len(ingested) = 3
    /\ ingested[1].counter_volume = 1
    /\ ingested[2] = [ ingested[1] EXCEPT !.counter_volume = 2 ]
    /\ ingested[3] = ingested[1]
    /\ ingested[1].resource_id = Sa
    /\ ingested[1].counter_name = Sa
    /\ ret.value = << [ resource_id |-> Sa, value |-> 2 ] >>

\* C12: for a filter with a meter, get_event_interval returns (None, None)
\* when no sample matches and otherwise the pair (smallest timestamp,
\* largest timestamp) of the matching samples, the two equal when one sample
\* matches, whatever the grouping in which the reduce is applied.
C12_IntervalIsMinMax ==
    ret.op = "get_event_interval" /\ Truthy(ret.filter.meter) =>
        LET matching == Ingested(LAMBDA s : Selects(ret.filter, s))
        IN  /\ ~ret.raised
            /\ matching = {} => ret.value = << NoTime, NoTime >>
            /\ matching # {} =>
                  /\ \E j \in matching : ingested[j].timestamp = ret.value[1]
                  /\ \E j \in matching : ingested[j].timestamp = ret.value[2]
                  /\ \A j \in matching :
                        /\ ret.value[1] <= ingested[j].timestamp
                        /\ ingested[j].timestamp <= ret.value[2]

\* The number of records of a list that equal a sample.
Times(records, s) == Cardinality({ i \in 1..Len(records) : records[i] = s })

\* C13: list_raw_events(filter) yields the ingested samples the filter
\* selects when translated with require_meter=false: one record per
\* completed record_metering_data call whose sample matches, a sample
\* ingested n times appearing n times and the empty filter yielding every
\* ingested sample, each record with the field values that were ingested
\* and without the store's identifier field.
C13_RawEventsAreTheMatchingSamples ==
    ret.op = "get_raw_events" =>
        LET matching == Ingested(LAMBDA s : Selects(ret.filter, s))
        IN  /\ ~ret.raised
            /\ Len(ret.value) = Cardinality(matching)
            /\ \A j \in matching :
                  Times(ret.value, ingested[j])
                      = Cardinality({ n \in matching : ingested[n] = ingested[j] })
            /\ \A i \in 1..Len(ret.value) : "_id" \notin DOMAIN ret.value[i]
            /\ ret.filter = NoFilter => Len(ret.value) = Len(ingested)

\* The filter on resource Sa alone, after one sample of Sa ingested twice
\* and a sample of resource Sb: the sample of Sa is listed twice.
C13_Witness ==
    /\ ret.op = "get_raw_events"
    /\ ret.filter = [ NoFilter EXCEPT !.resource = Sa ]
    /\ Len(ingested) = 3
    /\ ingested[1] = ingested[2]
    /\ ingested[1].resource_id = Sa
    /\ ingested[3].resource_id = Sb
    /\ ret.value = << ingested[1], ingested[1] >>

\* Whether the caller's call has executed a statement.
Done(p, statement) == \E i \in 1..calls[p].pc : Program[i] = statement

\* C14: record_metering_data stores a copy: when the call has returned, the
\* caller's sample is as it was passed, without the store's '_id' key; and
\* whatever the caller does to its sample afterwards, to a key of the dict
\* or in place to its resource_metadata mapping, list_raw_events returns
\* the samples as they were passed and list_resources, for each resource,
\* the metadata and owner of a sample as it was passed.
C14_StoredCopyIsNotAliased ==
    /\ \A p \in Callers :
          calls[p].state = "returned" =>
              Serialized(calls[p].objs, "data") = calls[p].sample
    /\ ret.op = "get_raw_events" =>
          /\ Len(ret.value) = Len(ingested)
          /\ \A j \in 1..Len(ingested) :
                Times(ret.value, ingested[j]) = Times(ingested, ingested[j])
    /\ ret.op = "get_resources" =>
          \A i \in 1..Len(ret.value) :
              \E p \in Callers :
                  /\ Done(p, "resource")
                  /\ ret.value[i].resource_id = calls[p].sample.resource_id
                  /\ ret.value[i].metadata = calls[p].sample.resource_metadata
                  /\ ret.value[i].user_id = calls[p].sample.user_id

\* Both callers have changed their samples after their calls, one a key of
\* its resource_metadata mapping and one its user_id; list_raw_events then
\* returns the two samples as they were passed.
C14_Witness ==
    /\ \A p \in Callers : calls[p].state = "mutated"
    /\ \E p \in Callers : "changed" \in DOMAIN calls[p].objs.metadata
    /\ \E p \in Callers : calls[p].objs.data.user_id = << >>
    /\ \A p \in Callers : "_id" \in DOMAIN calls[p].objs.record
    /\ ret.op = "get_raw_events"
    /\ Len(ret.value) = 2
    /\ \A i \in 1..2 :
          /\ ret.value[i].resource_metadata = MetaA
          /\ ret.value[i].user_id # << >>

\* The records of a key.
RecordsOf(coll, key) == { i \in 1..Len(coll) : coll[i]._id = key }

\* C15: when two record_metering_data calls for the same user_id (or the
\* same project_id) with different sources run concurrently, in any
\* interleaving of their upserts, then once both have completed there is
\* one record for that user (project) and its source set holds both
\* sources.
C15_ConcurrentSourcesBothKept ==
    (\A p \in Callers : calls[p].state = "returned") =>
        \A p, q \in Callers :
            /\ calls[p].sample.user_id = calls[q].sample.user_id =>
                  /\ Cardinality(RecordsOf(user, calls[p].sample.user_id)) = 1
                  /\ \A i \in RecordsOf(user, calls[p].sample.user_id) :
                        { calls[p].sample.source, calls[q].sample.source }
                            \subseteq ToSet(user[i].source)
            /\ calls[p].sample.project_id = calls[q].sample.project_id =>
                  /\ Cardinality(RecordsOf(project, calls[p].sample.project_id)) = 1
                  /\ \A i \in RecordsOf(project, calls[p].sample.project_id) :
                        { calls[p].sample.source, calls[q].sample.source }
                            \subseteq ToSet(project[i].source)

\* Two completed calls for one user and one project under two sources: the
\* user upserts were applied in one order and the project upserts in the
\* other.
C15_Witness ==
    /\ \A p \in Callers : calls[p].state = "returned"
    /\ calls[1].sample.user_id = calls[2].sample.user_id
    /\ calls[1].sample.project_id = calls[2].sample.project_id
    /\ calls[1].sample.source # calls[2].sample.source
    /\ Len(user) = 1
    /\ Len(project) = 1
    /\ user[1].source = << calls[2].sample.source, calls[1].sample.source >>
    /\ project[1].source = << calls[1].sample.source, calls[2].sample.source >>

\* Whether a resource record has the overwritten fields of a sample.
RecordIsOf(record, s) ==
    /\ record._id = s.resource_id
    /\ record.project_id = s.project_id
    /\ record.user_id = s.user_id
    /\ record.timestamp = s.timestamp
    /\ record.metadata = s.resource_metadata
    /\ record.source = s.source

C16_State ==
    /\ \A i \in 1..Len(resource) :
          \E p \in Callers :
              Done(p, "resource") /\ RecordIsOf(resource[i], calls[p].sample)
    /\ \A p, q \in Callers :
          /\ calls[p].state = "returned" /\ calls[q].state = "returned"
          /\ calls[p].sample.resource_id = calls[q].sample.resource_id
          => /\ Cardinality(RecordsOf(resource, calls[p].sample.resource_id)) = 1
             /\ \A i \in RecordsOf(resource, calls[p].sample.resource_id) :
                   { MeterPair(calls[p].sample), MeterPair(calls[q].sample) }
                       \subseteq ToSet(resource[i].meter)

C16_Step ==
    IF \E p \in Callers : ~Done(p, "resource") /\ Done(p, "resource")'
    THEN \A p \in Callers :
            ~Done(p, "resource") /\ Done(p, "resource")' =>
                \A i \in RecordsOf(resource', calls[p].sample.resource_id) :
                    RecordIsOf(resource'[i], calls[p].sample)
    ELSE resource' = resource

\* C16: when two record_metering_data calls for the same resource_id run
\* concurrently, in every reachable state the project_id, user_id,
\* timestamp, metadata and source of the resource record are those of one
\* sample, never some of one and some of the other; the record is that of
\* the call whose resource upsert was applied last, no other step changing
\* it; and once both have completed the meter set holds the meter pairs of
\* both samples.
C16_ResourceLastWriterWins == []C16_State /\ [][C16_Step]_vars

\* Two completed calls for one resource that differ in user, source and
\* meter: caller 2 returned last, and the record is that of caller 1, whose
\* resource upsert came second.
C16_Witness ==
    /\ \A p \in Callers : calls[p].state = "returned"
    /\ calls[1].sample.resource_id = calls[2].sample.resource_id
    /\ calls[1].sample.user_id # calls[2].sample.user_id
    /\ calls[1].sample.source # calls[2].sample.source
    /\ calls[1].sample.project_id # calls[2].sample.project_id
    /\ ret.op = "record_metering_data" /\ ret.caller = 2
    /\ Len(resource) = 1
    /\ RecordIsOf(resource[1], calls[1].sample)
    /\ resource[1].meter
          = << MeterPair(calls[2].sample), MeterPair(calls[1].sample) >>

\* Whether a URL's network location carries a username and a password: its
\* part before an '@' holds a ':'.
HasCredentials(url) ==
    \E i \in 1..Len(url) :
        /\ url[i] = AtSign
        /\ \E j \in 1..(i - 1) : url[j] = Colon

\* C17: when the connection URL carries a username and a password,
\* Connection(conf) authenticates before any other call on the database:
\* every index creation follows the authentication, and the reads and
\* writes are those of a Connection whose bootstrap completed; when the
\* URL carries no credentials no authentication is attempted.
C17_AuthenticateFirst ==
    conn.state # "none" =>
        /\ HasCredentials(conn.url) =>
              /\ \A i \in 1..Len(conn.ops) :
                    conn.ops[i].op \notin { "connect", "authenticate" } =>
                        \E j \in 1..(i - 1) : conn.ops[j].op = "authenticate"
              /\ conn.state = "ready" =>
                    \E j \in 1..Len(conn.ops) : conn.ops[j].op = "authenticate"
        /\ ~HasCredentials(conn.url) =>
              \A i \in 1..Len(conn.ops) : conn.ops[i].op # "authenticate"
        /\ ret.op \in { "record_metering_data", "get_users" } =>
              conn.state = "ready"

\* The URL a1:1@h:10 on a database without indexes: connect, authenticate,
\* then the index creations; then a sample is recorded.
C17_Witness ==
    /\ conn.state = "ready"
    /\ HasCredentials(conn.url)
    /\ "username" \in DOMAIN conn.opts
    /\ Len(conn.ops) = 4
    /\ conn.ops[1].op = "connect"
    /\ conn.ops[2].op = "authenticate"
    /\ conn.ops[3].op = "create_index"
    /\ conn.ops[4].op = "create_index"
    /\ ret.op = "record_metering_data"
    /\ Len(meter) = 1

\* Whether the registries cover a raw-log entry.
Covered(doc) ==
    /\ \E i \in 1..Len(user) :
          /\ user[i]._id = doc.user_id
          /\ doc.source \in ToSet(user[i].source)
    /\ \E i \in 1..Len(project) :
          /\ project[i]._id = doc.project_id
          /\ doc.source \in ToSet(project[i].source)
    /\ \E i \in 1..Len(resource) :
          /\ resource[i]._id = doc.resource_id
          /\ MeterPair(doc) \in ToSet(resource[i].meter)

\* C18: in every reachable state, in the middle of a record_metering_data
\* call, after a failure between its statements and under any interleaving
\* of concurrent calls, every sample of the raw log has a user record for
\* its user_id and a project record for its project_id whose source sets
\* hold its source, and a resource record for its resource_id whose meter set
\* holds its {counter_name, counter_type}.
C18_RegistriesCoverRawLog ==
    \A i \in 1..Len(meter) : Covered(meter[i])

\* Caller 1 failed after its three registry upserts and before the insert,
\* caller 2 completed for another user: two user records, one raw-log entry.
C18_Witness ==
    /\ calls[1].state = "crashed"
    /\ Done(1, "user") /\ Done(1, "project") /\ Done(1, "resource")
    /\ ~Done(1, "insert")
    /\ calls[2].state = "returned"
    /\ calls[1].sample.user_id # calls[2].sample.user_id
    /\ Len(user) = 2
    /\ Len(meter) = 1
    /\ meter[1].user_id = calls[2].sample.user_id

\* The collection and the keys of each index of the database.
IndexKeys == { << ix.collection, ix.keys >> : ix \in conn.indexes }

C19_Four ==
    conn.state = "ready" =>
        /\ Cardinality(conn.indexes) = 4
        /\ IndexKeys =
              { << "resource", << "user_id", "source" >> >>,
                << "resource", << "project_id", "source" >> >>,
                << "meter", << "resource_id", "user_id", "counter_name",
                               "timestamp", "source" >> >>,
                << "meter", << "resource_id", "project_id", "counter_name",
                               "timestamp", "source" >> >> }

C19_Again ==
    conn.state = "ready" /\ conn'.state = "ready" => conn'.indexes = conn.indexes

\* C19: after Connection(conf) the resource collection has an index on
\* (user_id, source) and another on (project_id, source), and the meter
\* collection an index on (resource_id, user_id, counter_name, timestamp,
\* source) and another with project_id in place of user_id, four indexes in
\* all; Connection(conf) run again leaves the same set of indexes.
C19_FourIndexes == []C19_Four /\ [][C19_Again]_vars

\* C20: without time bounds list_resources(user, project, source) returns
\* exactly the resources whose most recently ingested sample has the given
\* user_id, the given project_id and the given source, for each of the
\* three that is given: all given filters apply together, and a resource
\* that a user or source reported on earlier is left out when its latest
\* sample came from another.
C20_ListingFiltersOnLatest ==
    ret.op = "get_resources" /\ ret.start_timestamp = NoTime
        /\ ret.end_timestamp = NoTime =>
        /\ ~ret.raised
        /\ Len(ret.value) = Cardinality(ToSet(ResourceIds(ret.value)))
        /\ ToSet(ResourceIds(ret.value)) =
              { ingested[j].resource_id :
                  j \in { n \in 1..Len(ingested) :
                            /\ n = LastOf(ingested[n].resource_id)
                            /\ ret.user # None => ingested[n].user_id = ret.user
                            /\ ret.project # None =>
                                  ingested[n].project_id = ret.project
                            /\ ret.source # None => ingested[n].source = ret.source } }

\* list_resources(user=Sa) after user Sa, then user Sab, reported on one
\* resource: nothing is listed.
C20_Witness ==
    /\ ret.op = "get_resources"
    /\ ret.user = Sa /\ ret.project = None /\ ret.source = None
    /\ ret.start_timestamp = NoTime /\ ret.end_timestamp = NoTime
    /\ Len(ingested) = 2
    /\ ingested[1].resource_id = ingested[2].resource_id
    /\ ingested[1].user_id = Sa
    /\ ingested[2].user_id = Sab
    /\ ret.value = << >>

\* The query operations.
QueryOps ==
    { "get_users", "get_projects", "get_resources", "get_raw_events",
      "get_volume_sum", "get_volume_max", "get_event_interval",
      "make_query_from_filter" }

C21_Step ==
    /\ ret'.op \in QueryOps => UNCHANGED store
    /\ ret'.op = "record_metering_data" =>
          /\ Len(meter') = Len(meter) + 1
          /\ SubSeq(meter', 1, Len(meter)) = meter
          /\ Keys(user) \subseteq Keys(user')
          /\ Keys(project) \subseteq Keys(project')
          /\ Keys(resource) \subseteq Keys(resource')
    /\ store' # store => ret'.op = "record_metering_data"

C21_Count == Len(meter) = Len(ingested)

\* C21: the store changes through record_metering_data only: the listings,
\* the raw events, the three aggregates and the translation leave the three
\* registries and the raw log as they were; record_metering_data keeps
\* every raw-log entry as it is and every registry record, and adds one
\* raw-log entry, so the raw log has one entry per completed call.
C21_StoreChangesByIngestOnly == [][C21_Step]_vars /\ []C21_Count

\* After two calls for one user on two resources: one user record, two
\* resource records, two raw-log entries, the first as it was inserted; then
\* an aggregate is asked for.
C21_Witness ==
    /\ Len(ingested) = 2
    /\ ingested[1].user_id = ingested[2].user_id
    /\ ingested[1].resource_id # ingested[2].resource_id
    /\ Len(user) = 1
    /\ Len(resource) = 2
    /\ Len(meter) = 2
    /\ Strip(meter[1]) = ingested[1]
    /\ ret.op = "get_volume_sum"
    /\ ~ret.raised

=============================================================================
